---------------------------- MODULE Spec2Model ----------------------------
(***************************************************************************)
(* Web_Migration: a crawler that archives a fixed list of pages.           *)
(*                                                                         *)
(* The module holds three specifications over one set of variables:        *)
(*   SpecScan   - proper_scan_bytes, the byte scanner (src/src/lib.rs)     *)
(*   SpecTarget - Target::build / to_url / to_store                        *)
(*   Spec       - Manager::run and the crawl loop pursue_targets           *)
(* Strings and byte strings are sequences of one-character strings, so     *)
(* that joins, character replacement and slicing are computed as the code  *)
(* computes them.  Offsets are 0-based as in the source; Slice(d, a, b)    *)
(* is the Rust slice d[a..b].                                              *)
(***************************************************************************)
EXTENDS Integers, Sequences, FiniteSets, TLC

VARIABLES
    scanPc,      \* "input" before the call of proper_scan_bytes, "scanned" after
    scanData,    \* the page bytes handed to proper_scan_bytes
    scanMarkers, \* the six marker arguments of the call
    scanOut,     \* the value the call produced
    tgtPc,       \* "input" before Target::build, "built" after
    tgtSegs,     \* the slice of segments handed to Target::build
    tgt,         \* the Target it returned
    pc,          \* where Manager::run / pursue_targets stands
    input,       \* what Manager::run found: base path, config file, target file
    result,      \* the Result<String> of Manager::run
    paths,       \* the ConfigPath
    targets,     \* Targets.targets, the Vec<Target> still to pop
    dept,        \* pursue_targets' local dept (paths.departments)
    today,       \* pursue_targets' local today
    report,      \* the Report: info (a Department) and data (Vec<String>)
    d,           \* the Department of the target being processed
    count,       \* pursue_targets' local count
    handle,      \* the JoinHandle of the spawned collect_content: task, output
    content,     \* the bytes block_on(handle) returned
    now,         \* the clock Utc::now() reads, in seconds
    dirs,        \* the directories that exist
    files,       \* the page and report files written: path -> bytes
    inflight,    \* the collect_content tasks spawned and not yet completed
    taskResult,  \* per spawned task: "running", what it returned ("some" or
                 \* "none"), or "dropped" once its handle was dropped unawaited
    requests,    \* the url of each page request, in dispatch order
    createCalls, \* the create_dir calls of Department::create_path, in order
    storeLog,    \* per d.store call: the task, its Target, the path, whether the
                 \* write succeeded
    lastDownload \* the last download_files call: its arguments and outcome

scanVars == <<scanPc, scanData, scanMarkers, scanOut>>

tgtVars == <<tgtPc, tgtSegs, tgt>>

crawlVars ==
    <<pc, input, result, paths, targets, dept, today, report, d, count, handle,
      content, now, dirs, files, inflight, taskResult, requests, createCalls,
      storeLog, lastDownload>>

vars == <<scanVars, tgtVars, crawlVars>>

(***************************************************************************)
(* Bounds                                                                  *)
(***************************************************************************)
MaxDataLen == 10

MaxSegs == 3

MaxTargets == 4

MaxClock == 1

\* Seconds per calendar day, scaled to the clock values of the model.
DayLen == 2

(***************************************************************************)
(* Generic helpers                                                         *)
(***************************************************************************)
Max(a, b) == IF a >= b THEN a ELSE b

Slice(s, a, b) == SubSeq(s, a + 1, b)

RECURSIVE SeqsUpTo(_, _)
SeqsUpTo(S, n) ==
    IF n = 0 THEN {<<>>}
    ELSE LET shorter == SeqsUpTo(S, n - 1)
         IN  shorter \cup {Append(s, x) : s \in {t \in shorter : Len(t) = n - 1}, x \in S}

(***************************************************************************)
(* proper_scan_bytes                                                       *)
(***************************************************************************)
rest(data) == IF data = <<>> THEN <<>> ELSE Tail(data)

RECURSIVE bytes_match(_, _, _)
bytes_match(a, b, cnt) ==
    IF a # <<>> /\ b # <<>> /\ Head(b) = Head(a)
    THEN bytes_match(Tail(a), rest(b), cnt + 1)
    ELSE cnt

\* The first loop: the offset reached when looking for content_marker.
RECURSIVE FindContent(_, _, _)
FindContent(data, cm, i) ==
    IF i + Len(cm) < Len(data)
    THEN LET j == bytes_match(Slice(data, i, i + Len(cm)), cm, 0)
         IN  IF j = Len(cm) THEN i + j ELSE FindContent(data, cm, i + j + 1)
    ELSE i

\* The loop searching for the attribute: <<i, j>> when it breaks.
RECURSIVE FindAttribute(_, _, _)
FindAttribute(data, am, i) ==
    LET j  == bytes_match(Slice(data, i, i + Len(am)), am, 0)
        i2 == i + j + 1
    IN  IF i2 + Len(am) >= Len(data) \/ j = Len(am)
        THEN <<i2, j>>
        ELSE FindAttribute(data, am, i2)

\* The loop searching for the end of the attribute value: j when it breaks,
\* or -1 when the slice data[j..j+dl] is out of range (the call panics).
RECURSIVE FindDeliminator(_, _, _)
FindDeliminator(data, dm, j) ==
    IF j + Len(dm) > Len(data) THEN -1
    ELSE LET k  == bytes_match(Slice(data, j, j + Len(dm)), dm, 0)
             j2 == j + k + 1
         IN  IF j2 + Len(dm) > Len(data) \/ k = Len(dm)
             THEN j2
             ELSE FindDeliminator(data, dm, j2)

\* The loop looking for pattern_marker inside data[i..j-2]: temp when it ends.
RECURSIVE FindPattern(_, _, _, _, _)
FindPattern(data, pm, i, j, temp) ==
    IF /\ temp < j - 2 - i
       /\ j - 2 - (i + temp) > Len(pm)
       /\ bytes_match(Slice(data, i + temp, j - 2), pm, 0) # Len(pm)
    THEN FindPattern(data, pm, i, j, temp + 1)
    ELSE temp

\* An insertion test that leaves out what the pattern loop found.
StoreValue_Unfiltered(data, pm, i, j, temp) ==
    j <= Len(data)

\* The insertion test of the value data[i..j-2] after the pattern loop.
StoreValue(data, pm, i, j, temp) ==
    j <= Len(data) /\ j - 2 - (i + temp) > Len(pm)

\* One iteration of the second loop.  st.i is the offset, st.spans the spans
\* <<lo, hi>> of the values data[lo..hi] inserted so far, st.state is "run"
\* while the loop goes on, "done" once it has ended and "panic" when a slice
\* or a subtraction is out of range.
ScanStep(data, m, st) ==
    LET l == Len(data)
        i == st.i
    IN
    IF st.state # "run" THEN st
    ELSE IF i + Len(m.tag) < l
    THEN LET j == bytes_match(Slice(data, i, i + Len(m.tag)), m.tag, 0) IN
         IF j = Len(m.tag) /\ i + j + Len(m.attribute) < l
         THEN LET a  == FindAttribute(data, m.attribute, i + j)
                  ia == a[1]
                  ja == a[2]
              IN  IF ja = Len(m.attribute) /\ ia + ja + 1 + Len(m.pattern) < l
                  THEN LET vs == ia + 1
                           je == FindDeliminator(data, m.deliminator, vs)
                       IN  IF je < 0 \/ je - 2 < vs
                           THEN [st EXCEPT !.state = "panic"]
                           ELSE LET temp == FindPattern(data, m.pattern, vs, je, 0)
                                IN  [st EXCEPT !.i = je,
                                               !.spans =
                                        IF StoreValue(data, m.pattern, vs, je, temp)
                                        THEN @ \cup {<<vs, je - 2>>}
                                        ELSE @]
                  ELSE [st EXCEPT !.i = ia]
         ELSE IF i + Len(m.end_content) < l
              THEN LET k == bytes_match(Slice(data, i, i + Len(m.end_content)),
                                        m.end_content, 0)
                   IN  IF k = Len(m.end_content)
                       THEN [st EXCEPT !.state = "done"]
                       ELSE [st EXCEPT !.i = i + Max(j, k) + 1]
              ELSE [st EXCEPT !.state = "done"]
    ELSE [st EXCEPT !.state = "done"]

\* n iterations of the second loop, halved so that the evaluation stays
\* shallow on long inputs.
RECURSIVE ScanLoop(_, _, _, _)
ScanLoop(data, m, st, n) ==
    IF n = 0 THEN st
    ELSE IF n = 1 THEN ScanStep(data, m, st)
    ELSE LET half == ScanLoop(data, m, st, n \div 2)
         IN  IF half.state # "run" THEN half
             ELSE ScanLoop(data, m, half, n - (n \div 2))

\* The second loop from offset i: every iteration moves the offset forward,
\* so it has ended after Len(data) + 1 iterations.
ScanTags(data, m, i, scan) ==
    LET end == ScanLoop(data, m, [i |-> i, spans |-> scan, state |-> "run"],
                        Len(data) + 1)
    IN  [panic |-> end.state = "panic", spans |-> end.spans]

\* The offset at which the tag loop starts.
ScanStart(data, m) == FindContent(data, m.content, 0)

\* The whole call: the spans of the inserted values, and whether it panicked.
ScanSpans(data, m) == ScanTags(data, m, ScanStart(data, m), {})

\* The returned HashSet<Vec<u8>>.
proper_scan_bytes(data, m) ==
    {Slice(data, s[1], s[2]) : s \in ScanSpans(data, m).spans}

(***************************************************************************)
(* The inputs proper_scan_bytes is tried with in SpecScan                  *)
(***************************************************************************)
Bytes == {"a", "b"}

\* The marker arguments the call is tried with.  LongContent is a
\* content_marker longer than a whole tag with its attribute and value.
LongContent == <<"b", "b", "b", "b", "b", "b", "b", "b">>

ContentMarkers == {<<"a">>, <<"a", "b">>, LongContent}

EndMarkers == {<<"b">>, <<"b", "a">>}

TagMarkers == {<<"a">>, <<"a", "b">>}

AttributeMarkers == {<<"a">>, <<"b">>}

PatternMarkers == {<<"a">>, <<"a", "b">>}

DeliminatorMarkers == {<<"a">>, <<"b">>}

MarkerChoices ==
    [content : ContentMarkers, end_content : EndMarkers, tag : TagMarkers,
     attribute : AttributeMarkers, pattern : PatternMarkers,
     deliminator : DeliminatorMarkers]



(***************************************************************************)
(* Strings: join, join_by and Target                                       *)
(***************************************************************************)
\* join(s, acc): the segments appended to acc without a separator.
RECURSIVE join(_, _)
join(s, acc) ==
    IF s = <<>> THEN acc
    ELSE IF Len(s) = 1 THEN acc \o s[1]
    ELSE join(Tail(s), acc \o s[1])

\* join_by(s, acc, sep): `if let [a, b @ ..] = s` matches every non-empty
\* slice, so sep follows each segment, the last one included.
RECURSIVE join_by(_, _, _)
join_by(s, acc, sep) ==
    IF s # <<>>
    THEN join_by(Tail(s), acc \o s[1] \o sep, sep)
    ELSE join(s, acc)

Target_build(t) ==
    [base      |-> IF t = <<>> THEN <<>> ELSE t[1],
     extension |-> IF Len(t) >= 2 THEN join_by(Tail(t), <<>>, <<"/">>) ELSE <<>>]

to_path(t) == t.base \o <<"/">>

to_url(t) == to_path(t) \o t.extension

DotTxt == <<".", "t", "x", "t">>

to_store(t) ==
    [k \in 1..Len(t.extension) |->
        IF t.extension[k] = "/" THEN "-" ELSE t.extension[k]] \o DotTxt

\* The segments a target line can hold once split on '/'.
SegmentPool == {<<"a">>, <<"b", "c">>, <<"b", "-", "c">>, <<"d">>}


(***************************************************************************)
(* Today, Paths, ConfigPath, Targets: the values Manager::run builds       *)
(***************************************************************************)
Digits == <<"0", "1", "2", "3", "4", "5", "6", "7", "8", "9">>

\* i64::to_string of a non-negative number.
RECURSIVE to_string(_)
to_string(n) ==
    IF n < 10 THEN <<Digits[n + 1]>>
    ELSE to_string(n \div 10) \o <<Digits[(n % 10) + 1]>>

\* now.date().to_string(): the calendar day of the instant, rendered by
\* chrono; here the letter d and the day number.
DateString(t) == <<"d">> \o to_string(t \div DayLen)

\* Today::build() at clock value t; date is Daily::Date, time is Daily::Time.
Today_build(t) == [date |-> DateString(t), time |-> t]

Daily_get_date(td) == td.date

Daily_get_time(td) == to_string(td.time)

TagDepartments ==
    <<"D", "e", "p", "a", "r", "t", "m", "e", "n", "t", "s">>

TagTargets ==
    <<"T", "a", "r", "g", "e", "t", "s">>

TagBaseUrl ==
    <<"B", "a", "s", "e", "U", "r", "l">>

TagReports ==
    <<"R", "e", "p", "o", "r", "t", "s">>

BadPath ==
    <<"b", "a", "d", " ", "p", "a", "t", "h">>

Bad == [role |-> "Bad", p |-> <<>>]

\* The inner fold of prep_data over the characters of one line: a separator
\* closes the current segment, a space is dropped, the last segment is pushed.
RECURSIVE SplitLine(_, _, _, _)
SplitLine(line, seps, tot, cur) ==
    IF line = <<>> THEN Append(tot, cur)
    ELSE IF Head(line) \in seps THEN SplitLine(Tail(line), seps, Append(tot, cur), <<>>)
    ELSE IF Head(line) # " " THEN SplitLine(Tail(line), seps, tot, Append(cur, Head(line)))
    ELSE SplitLine(Tail(line), seps, tot, cur)

\* prep_data on a file that could be read: one split line per line.
prep_data(lines, seps) ==
    [k \in 1..Len(lines) |-> SplitLine(lines[k], seps, <<>>, <<>>)]

Paths_from(path, base_path) ==
    IF path = <<>> THEN Bad
    ELSE IF path[1] = TagDepartments
         THEN [role |-> "Departments", p |-> join(Tail(path), base_path)]
    ELSE IF path[1] = TagTargets
         THEN [role |-> "Targets", p |-> join(Tail(path), base_path)]
    ELSE IF path[1] = TagBaseUrl
         THEN [role |-> "BaseUrl", p |-> join(Tail(path), <<>>)]
    ELSE IF path[1] = TagReports
         THEN [role |-> "Reports", p |-> join(Tail(path), base_path)]
    ELSE Bad

get_path(x) == IF x.role = "Bad" THEN BadPath ELSE x.p

make_path(x, path) == get_path(x) \o path

\* ConfigPath::build pops the paths from the end; a later pop overwrites.
RECURSIVE ConfigPath_fold(_, _)
ConfigPath_fold(ps, acc) ==
    IF ps = <<>> THEN acc
    ELSE LET x == ps[Len(ps)]
             front == SubSeq(ps, 1, Len(ps) - 1)
         IN  ConfigPath_fold(front,
                CASE x.role = "Departments" -> [acc EXCEPT !.departments = x]
                  [] x.role = "Targets"     -> [acc EXCEPT !.targets = x]
                  [] x.role = "BaseUrl"     -> [acc EXCEPT !.base_url = x]
                  [] x.role = "Reports"     -> [acc EXCEPT !.reports = x]
                  [] OTHER                  -> acc)

NoPaths == [departments |-> Bad, targets |-> Bad, base_url |-> Bad, reports |-> Bad]

ConfigPath_build(ps) == ConfigPath_fold(ps, NoPaths)

\* ConfigPath::prep_paths on a readable ./config/config.txt.
prep_paths(lines, base_path) ==
    LET split == prep_data(lines, {";", ","})
    IN  [k \in 1..Len(split) |-> Paths_from(split[k], base_path)]

\* Targets::prep_targets on a readable target file.
prep_targets(lines) ==
    LET split == prep_data(lines, {"/"})
    IN  [k \in 1..Len(split) |-> Target_build(split[k])]

\* A file that cannot be read, and a file holding lines.
NoFile == [exists |-> FALSE, lines |-> <<>>]

File(lines) == [exists |-> TRUE, lines |-> lines]

\* Option<Vec<T>>
None == [some |-> FALSE, v |-> <<>>]

Some(v) == [some |-> TRUE, v |-> v]

\* Targets::build: None, an unreadable target file, gives an empty list.
Targets_build(prepped) == IF prepped.some THEN prepped.v ELSE <<>>

(***************************************************************************)
(* Department                                                              *)
(***************************************************************************)
Department_build(path, td, base) == [base |-> base, path |-> path, today |-> td]

\* A location that holds the extension of the target as directories.
location_WithExtension(dep) == make_path(dep.base, to_url(dep.path))

location(dep) == make_path(dep.base, to_path(dep.path))

storage_location_today(dep) ==
    location(dep) \o Daily_get_date(dep.today) \o <<"/">>

storage_location_now(dep) ==
    storage_location_today(dep) \o Daily_get_time(dep.today) \o <<"/">>

file_location(dep) == storage_location_now(dep) \o to_store(dep.path)

\* Department::destroy: the fields it held.
destroy(dep) == [base |-> dep.base, path |-> dep.path, today |-> dep.today]

\* Path::is_dir and create_dir see a directory with or without its final '/'.
RECURSIVE StripSlash(_)
StripSlash(path) ==
    IF path # <<>> /\ path[Len(path)] = "/"
    THEN StripSlash(SubSeq(path, 1, Len(path) - 1))
    ELSE path

\* An is_dir that sees no directory.
is_dir_Never(ds, path) == FALSE

is_dir(ds, path) == StripSlash(path) \in ds

\* Department::create_path on the directories ds.  failAt = k makes the k-th
\* create_dir call of the three fail, when it is made (0: none fails).  The
\* result holds the directories afterwards, the create_dir calls in order and
\* whether Ok(()) was returned.
RECURSIVE CreateSteps(_, _, _, _, _)
CreateSteps(todo, k, failAt, ds, calls) ==
    IF todo = <<>> THEN [dirs |-> ds, calls |-> calls, ok |-> TRUE]
    ELSE IF is_dir(ds, Head(todo))
         THEN CreateSteps(Tail(todo), k + 1, failAt, ds, calls)
    ELSE IF k = failAt
         THEN [dirs |-> ds, calls |-> Append(calls, Head(todo)), ok |-> FALSE]
    ELSE CreateSteps(Tail(todo), k + 1, failAt,
                     ds \cup {StripSlash(Head(todo))}, Append(calls, Head(todo)))

\* A create_path that makes the timestamp directory first.
create_path_TimeFirst(dep, failAt, ds) ==
    CreateSteps(<<storage_location_now(dep), storage_location_today(dep), location(dep)>>,
                1, failAt, ds, <<>>)

create_path(dep, failAt, ds) ==
    CreateSteps(<<location(dep), storage_location_today(dep), storage_location_now(dep)>>,
                1, failAt, ds, <<>>)

(***************************************************************************)
(* download_files and write_file                                           *)
(***************************************************************************)
AssetRoot ==
    <<"T", ":", "/", "W", "e", "b", "_", "M", "i", "g", "r", "a", "t", "i",
      "o", "n", "/", "f", "i", "l", "e", "s", "/">>

OriginHost ==
    <<"h", "t", "t", "p", "s", ":", "/", "/", "w", "w", "w", ".", "c", "s",
      "u", "n", ".", "e", "d", "u">>

TmpBin ==
    <<"t", "m", "p", ".", "b", "i", "n">>

\* str::split on one character: n separators give n + 1 parts.
RECURSIVE split(_, _, _, _)
split(s, sep, tot, cur) ==
    IF s = <<>> THEN Append(tot, cur)
    ELSE IF Head(s) = sep THEN split(Tail(s), sep, Append(tot, cur), <<>>)
    ELSE split(Tail(s), sep, tot, Append(cur, Head(s)))

\* The directories download_files looks at, in order: base_path after each
\* `base_path += part`.
RECURSIVE AssetDirs(_, _)
AssetDirs(parts, base_path) ==
    IF parts = <<>> THEN <<>>
    ELSE <<base_path \o Head(parts)>>
         \o AssetDirs(Tail(parts), base_path \o Head(parts) \o <<"/">>)

\* The directory prefix the asset files are written under.
AssetPath(path) == join_by(split(path, "/", <<>>, <<>>), AssetRoot, <<"/">>)

\* The url requested for a match; <<>> for an empty match, which is skipped.
AssetUrl(target) ==
    IF target = <<>> THEN <<>>
    ELSE IF Head(target) = "/" THEN OriginHost \o target
    ELSE target

\* name.replace("%20", " ")
RECURSIVE ReplacePct20(_)
ReplacePct20(name) ==
    IF Len(name) >= 3 /\ SubSeq(name, 1, 3) = <<"%", "2", "0">>
    THEN <<" ">> \o ReplacePct20(SubSeq(name, 4, Len(name)))
    ELSE IF name = <<>> THEN <<>>
    ELSE <<Head(name)>> \o ReplacePct20(Tail(name))

\* The file name of a fetched url: its last path segment up to a '?', or
\* tmp.bin when that segment is empty.
AssetName(url) ==
    LET segments == split(url, "/", <<>>, <<>>)
        last == segments[Len(segments)]
    IN  IF last = <<>> THEN TmpBin
        ELSE ReplacePct20(split(last, "?", <<>>, <<>>)[1])

\* HashSet::iter may visit the matches in any order.
Orders(scan) ==
    {o \in [1..Cardinality(scan) -> scan] : \A a, b \in DOMAIN o : a # b => o[a] # o[b]}

\* One call download_files(scan, path) on the directories ds.  failAt = k:
\* the create_dir of the k-th directory fails, when it is called; order: the
\* iteration order of the set, empty matches skipped; stopAt = k: the k-th
\* request, body or write fails and `?` returns (0: none fails).  requested
\* and written are the urls requested and the files written by the call.
download_files(scan, path, ds, failAt, order, stopAt) ==
    LET parts == split(path, "/", <<>>, <<>>)
        made  == CreateSteps(AssetDirs(parts, AssetRoot), 1, failAt, ds, <<>>)
        todo  == SelectSeq(order, LAMBDA m : m # <<>>)
        urls  == [k \in 1..Len(todo) |-> AssetUrl(todo[k])]
        n     == IF stopAt = 0 THEN Len(urls) ELSE stopAt
    IN  IF ~made.ok
        THEN [dirs |-> made.dirs, ok |-> FALSE, requested |-> <<>>, written |-> {}]
        ELSE [dirs      |-> made.dirs,
              ok        |-> stopAt = 0,
              requested |-> SubSeq(urls, 1, n),
              written   |-> {AssetPath(path) \o AssetName(urls[k]) :
                                k \in 1..(IF stopAt = 0 THEN n ELSE n - 1)}]

(***************************************************************************)
(* The inputs of a run                                                     *)
(***************************************************************************)
BasePath ==
    <<"w", "/">>

LineDepartments ==
    <<"D", "e", "p", "a", "r", "t", "m", "e", "n", "t", "s", ";", "d", "e",
      "p", "/">>

LineTargets ==
    <<"T", "a", "r", "g", "e", "t", "s", ",", " ", "t", ".", "t", "x", "t">>

LineBaseUrl ==
    <<"B", "a", "s", "e", "U", "r", "l", ";", "h", "t", "t", "p", ":", "/",
      "/", "o", "/">>

LineReports ==
    <<"R", "e", "p", "o", "r", "t", "s", ";", "r", "e", "p", "/">>

\* ./config/config.txt: complete, without its BaseUrl line, or without its
\* Targets line.
ConfigFiles ==
    { File(<<LineDepartments, LineTargets, LineBaseUrl, LineReports>>),
      File(<<LineDepartments, LineTargets, LineReports>>),
      File(<<LineDepartments, LineBaseUrl, LineReports>>) }

Line1 ==
    <<"a", "/", "b", "/", "c">>

Line2 ==
    <<"a", "/", "b", "-", "c">>

Line3 ==
    <<"d", " ", "/", " ", "e">>

TargetLines == <<Line1, Line2, Line3>>

\* The target file: the first n lines of Line1, Line2, Line3, Line1, ...
TargetFiles ==
    {File([k \in 1..n |-> TargetLines[((k - 1) % Len(TargetLines)) + 1]]) :
        n \in 0..MaxTargets}

\* The body of a page that is fetched with success.
PageBody ==
    <<"i", "d", "=", "\"", "c", "o", "n", "t", "e", "n", "t", "\"", "<",
      "a", " ", "h", "r", "e", "f", "=", "\"", "/", "s", "i", "t", "e",
      "s", "/", "d", "e", "f", "a", "u", "l", "t", "/", "f", "i", "l", "e",
      "s", "/", "d", "\"", ">", "<", "a", " ", "h", "r", "e", "f", "=",
      "\"", "/", "s", "i", "t", "e", "s", "/", "d", "e", "f", "a", "u",
      "l", "t", "/", "f", "i", "l", "e", "s", "/", "e", "\"", ">", "<",
      "i", "m", "g", " ", "s", "r", "c", "=", "\"", "/", "s", "i", "t",
      "e", "s", "/", "d", "e", "f", "a", "u", "l", "t", "/", "f", "i", "l",
      "e", "s", "/", "i", "\"", ">", " ">>

ContentMarker ==
    <<"i", "d", "=", "\"", "c", "o", "n", "t", "e", "n", "t", "\"">>

EndContentMarker ==
    <<"c", "l", "a", "s", "s", "=", "\"", "l", "a", "y", "o", "u", "t",
      "-", "c", "s", "u", "n", "-", "-", "f", "o", "o", "t", "e", "r",
      "\"">>

LinkTag ==
    <<"<", "a", " ">>

LinkAttribute ==
    <<"h", "r", "e", "f">>

ImageTag ==
    <<"<", "i", "m", "g", " ">>

ImageAttribute ==
    <<"s", "r", "c">>

FilesPattern ==
    <<"/", "s", "i", "t", "e", "s", "/", "d", "e", "f", "a", "u", "l", "t",
      "/", "f", "i", "l", "e", "s", "/">>

Quote ==
    <<"\"">>

LinkMarkers ==
    [content |-> ContentMarker, end_content |-> EndContentMarker, tag |-> LinkTag,
     attribute |-> LinkAttribute, pattern |-> FilesPattern, deliminator |-> Quote]

ImageMarkers ==
    [content |-> ContentMarker, end_content |-> EndContentMarker, tag |-> ImageTag,
     attribute |-> ImageAttribute, pattern |-> FilesPattern, deliminator |-> Quote]

NoDataFor ==
    <<"N", "o", " ", "d", "a", "t", "a", " ", "f", "o", "r", " ">>

ReportsName ==
    <<"r", "e", "p", "o", "r", "t", "s">>

BatchSize == 3

SleepSeconds == 1

(***************************************************************************)
(* Spec: Manager::run and pursue_targets                                   *)
(***************************************************************************)
NoToday == [date |-> <<>>, time |-> 0]

NoDept == [base |-> Bad, path |-> [base |-> <<>>, extension |-> <<>>], today |-> NoToday]

NoHandle == [task |-> 0, output |-> "none"]

NoDownload ==
    [task |-> 0, kind |-> "none", scan |-> {}, order |-> <<>>, ok |-> TRUE,
     failed |-> FALSE, requested |-> <<>>, written |-> {}]

NoResult == [kind |-> "none", value |-> <<>>]

Err == [kind |-> "err", value |-> <<>>]

Ok(v) == [kind |-> "ok", value |-> v]

\* write_file that succeeded: the file holds data, whatever it held before.
write_file(fs, path, data) ==
    [q \in DOMAIN fs \cup {path} |-> IF q = path THEN data ELSE fs[q]]

\* A store that returns the path of the file whether or not it was written.
store_AlwaysPath(dep, ok) == file_location(dep)

\* The string Department::store returns.
store(dep, ok) ==
    IF ok THEN file_location(dep) ELSE NoDataFor \o to_url(dep.path)

\* The bytes Report::build stores.
RECURSIVE ReportBytes(_)
ReportBytes(data) ==
    IF data = <<>> THEN <<>>
    ELSE ReportBytes(SubSeq(data, 1, Len(data) - 1)) \o data[Len(data)] \o <<",", "\n">>

\* now is the clock value Utc::now() gave last; the first read of a run gives
\* the last second of a day, and up to MaxClock seconds pass before the next.
ClockStart == DayLen - 1

ClockReads == {now + passed : passed \in 0..MaxClock}

CrawlIdle ==
    /\ pc = "idle"
    /\ input = [base_is_dir |-> FALSE, config |-> NoFile, target_file |-> NoFile]
    /\ result = NoResult
    /\ paths = NoPaths
    /\ targets = <<>>
    /\ dept = Bad
    /\ today = NoToday
    /\ report = [info |-> NoDept, data |-> <<>>]
    /\ d = NoDept
    /\ count = 0
    /\ handle = NoHandle
    /\ content = <<>>
    /\ now = 0
    /\ dirs = {}
    /\ files = <<>>
    /\ inflight = {}
    /\ taskResult = <<>>
    /\ requests = <<>>
    /\ createCalls = <<>>
    /\ storeLog = <<>>
    /\ lastDownload = NoDownload

ScanIdle ==
    /\ scanPc = "idle"
    /\ scanData = <<>>
    /\ scanMarkers = [content |-> <<>>, end_content |-> <<>>, tag |-> <<>>,
                      attribute |-> <<>>, pattern |-> <<>>, deliminator |-> <<>>]
    /\ scanOut = [panic |-> FALSE, spans |-> {}, set |-> {}]

TargetIdle ==
    /\ tgtPc = "idle"
    /\ tgtSegs = <<>>
    /\ tgt = [base |-> <<>>, extension |-> <<>>]

Init ==
    /\ ScanIdle
    /\ TargetIdle
    /\ pc = "run"
    /\ input = [base_is_dir |-> FALSE, config |-> NoFile, target_file |-> NoFile]
    /\ result = NoResult
    /\ paths = NoPaths
    /\ targets = <<>>
    /\ dept = Bad
    /\ today = NoToday
    /\ report = [info |-> NoDept, data |-> <<>>]
    /\ d = NoDept
    /\ count = 0
    /\ handle = NoHandle
    /\ content = <<>>
    /\ now = ClockStart
    /\ dirs = {}
    /\ files = <<>>
    /\ inflight = {}
    /\ taskResult = <<>>
    /\ requests = <<>>
    /\ createCalls = <<>>
    /\ storeLog = <<>>
    /\ lastDownload = NoDownload

\* Manager::run up to the call of pursue_targets.
ManagerRun ==
    /\ pc = "run"
    /\ \E isDir \in BOOLEAN, cfg \in ConfigFiles \cup {NoFile},
          tf \in TargetFiles \cup {NoFile} :
        /\ input' = [base_is_dir |-> isDir, config |-> cfg, target_file |-> tf]
        /\ IF ~isDir \/ ~cfg.exists
           THEN /\ result' = Err
                /\ pc' = "done"
                /\ UNCHANGED <<paths, targets>>
           ELSE LET ps == ConfigPath_build(prep_paths(cfg.lines, BasePath))
                    readable == ps.targets.role # "Bad" /\ tf.exists
                IN  /\ paths' = ps
                    /\ targets' = Targets_build(IF readable
                                                THEN Some(prep_targets(tf.lines))
                                                ELSE None)
                    /\ pc' = "client"
                    /\ UNCHANGED result
    /\ UNCHANGED <<dept, today, report, d, count, handle, content, now, dirs, files,
                   inflight, taskResult, requests, createCalls, storeLog, lastDownload>>
    /\ UNCHANGED <<scanVars, tgtVars>>

\* a_client_and_runtime and the first Today::build.
PursueTargets ==
    /\ pc = "client"
    /\ \E built \in BOOLEAN :
        IF built
        THEN /\ dept' = paths.departments
             /\ today' = Today_build(now)
             /\ pc' = "report_new"
             /\ UNCHANGED result
        ELSE /\ result' = Err
             /\ pc' = "done"
             /\ UNCHANGED <<dept, today>>
    /\ UNCHANGED <<input, paths, targets, report, d, count, handle, content, now, dirs,
                   files, inflight, taskResult, requests, createCalls, storeLog,
                   lastDownload>>
    /\ UNCHANGED <<scanVars, tgtVars>>

\* Report::new over a Department with its own Today::build; count = 0.
ReportNew ==
    /\ pc = "report_new"
    /\ \E t \in ClockReads :
        /\ report' = [info |-> Department_build(Target_build(<<ReportsName>>),
                                                Today_build(t), paths.reports),
                      data |-> <<>>]
        /\ now' = t
    /\ count' = 0
    /\ pc' = "loop"
    /\ UNCHANGED <<input, result, paths, targets, dept, today, d, handle, content,
                   dirs, files, inflight, taskResult, requests, createCalls, storeLog,
                   lastDownload>>
    /\ UNCHANGED <<scanVars, tgtVars>>

\* A dispatch that pops two targets and processes the second only.
Dispatch_PopsTwo ==
    /\ pc = "loop"
    /\ targets # <<>>
    /\ LET left   == IF Len(targets) > 1
                     THEN SubSeq(targets, 1, Len(targets) - 1)
                     ELSE targets
           target == left[Len(left)]
           dep    == Department_build(target, today, dept)
           task   == Len(taskResult) + 1
       IN  /\ targets' = SubSeq(left, 1, Len(left) - 1)
           /\ d' = dep
           /\ requests' = Append(requests, make_path(paths.base_url, to_url(dep.path)))
           /\ taskResult' = Append(taskResult, "running")
           /\ inflight' = inflight \cup {task}
           /\ handle' = [task |-> task, output |-> "pending"]
           /\ count' = count + 1
           /\ pc' = IF (count + 1) % BatchSize = 0 THEN "sleep" ELSE "create"
    /\ UNCHANGED <<input, result, paths, dept, today, report, content, now, dirs, files,
                   createCalls, storeLog, lastDownload>>
    /\ UNCHANGED <<scanVars, tgtVars>>

\* `while let Some(target) = targets.pop()`: the last target is taken, its
\* Department built, its fetch spawned and count incremented.
Dispatch ==
    /\ pc = "loop"
    /\ targets # <<>>
    /\ LET target == targets[Len(targets)]
           dep    == Department_build(target, today, dept)
           task   == Len(taskResult) + 1
       IN  /\ targets' = SubSeq(targets, 1, Len(targets) - 1)
           /\ d' = dep
           /\ requests' = Append(requests, make_path(paths.base_url, to_url(dep.path)))
           /\ taskResult' = Append(taskResult, "running")
           /\ inflight' = inflight \cup {task}
           /\ handle' = [task |-> task, output |-> "pending"]
           /\ count' = count + 1
           /\ pc' = IF (count + 1) % BatchSize = 0 THEN "sleep" ELSE "create"
    /\ UNCHANGED <<input, result, paths, dept, today, report, content, now, dirs, files,
                   createCalls, storeLog, lastDownload>>
    /\ UNCHANGED <<scanVars, tgtVars>>

\* A sleep step that resets count and returns at once.
Sleep_NoDelay ==
    /\ pc = "sleep"
    /\ count' = count - count
    /\ pc' = "create"
    /\ UNCHANGED <<input, result, paths, targets, dept, today, report, d, handle, content,
                   now, dirs, files, inflight, taskResult, requests, createCalls,
                   storeLog, lastDownload>>
    /\ UNCHANGED <<scanVars, tgtVars>>

\* `count -= count` and the sleep of one second.
Sleep ==
    /\ pc = "sleep"
    /\ count' = count - count
    /\ now' = now + SleepSeconds
    /\ pc' = "create"
    /\ UNCHANGED <<input, result, paths, targets, dept, today, report, d, handle, content,
                   dirs, files, inflight, taskResult, requests, createCalls, storeLog,
                   lastDownload>>
    /\ UNCHANGED <<scanVars, tgtVars>>

\* d.create_path(): on Err the handle is never awaited; it is dropped when
\* the iteration ends.
CreatePath ==
    /\ pc = "create"
    /\ \E failAt \in 0..3 :
        LET made == create_path(d, failAt, dirs)
        IN  /\ dirs' = made.dirs
            /\ createCalls' = createCalls \o made.calls
            /\ IF made.ok
               THEN pc' = "await" /\ UNCHANGED <<handle, taskResult>>
               ELSE /\ pc' = "destroy"
                    /\ UNCHANGED handle
                    /\ taskResult' = [taskResult EXCEPT ![handle.task] = "dropped"]
    /\ UNCHANGED <<input, result, paths, targets, dept, today, report, d, count, content,
                   now, files, inflight, requests, storeLog, lastDownload>>
    /\ UNCHANGED <<scanVars, tgtVars>>

\* A spawned collect_content ends: Some(bytes) on a 2xx status with a body,
\* None on another status, a transport error or a body error.  A request to
\* an url that has no base url can only fail to be sent.  What a task returns
\* after its handle was dropped reaches no one.
FetchOutcomes == {"ok", "status", "transport", "body"}

collect_content(outcome) == IF outcome = "ok" THEN "some" ELSE "none"

FetchComplete ==
    /\ \E task \in inflight :
        /\ inflight' = inflight \ {task}
        /\ IF handle.task = task /\ taskResult[task] # "dropped"
           THEN \E outcome \in FetchOutcomes :
                    /\ paths.base_url.role = "Bad" => outcome = "transport"
                    /\ taskResult' = [taskResult EXCEPT
                                        ![task] = collect_content(outcome)]
                    /\ handle' = [handle EXCEPT !.output = collect_content(outcome)]
           ELSE UNCHANGED <<taskResult, handle>>
    /\ UNCHANGED <<pc, input, result, paths, targets, dept, today, report, d, count,
                   content, now, dirs, files, requests, createCalls, storeLog,
                   lastDownload>>
    /\ UNCHANGED <<scanVars, tgtVars>>

\* An await that treats Ok(None) as content to be stored.
Await_StoresNone ==
    /\ pc = "await"
    /\ handle.output \in {"some", "none"}
    /\ IF handle.output = "some"
       THEN content' = PageBody /\ pc' = "links"
       ELSE content' = <<>> /\ pc' = "store"
    /\ handle' = NoHandle
    /\ UNCHANGED <<input, result, paths, targets, dept, today, report, d, count, now,
                   dirs, files, inflight, taskResult, requests, createCalls, storeLog,
                   lastDownload>>
    /\ UNCHANGED <<scanVars, tgtVars>>

\* rt.block_on(handle) returns once the task has ended.
Await ==
    /\ pc = "await"
    /\ handle.output \in {"some", "none"}
    /\ IF handle.output = "some"
       THEN content' = PageBody /\ pc' = "links"
       ELSE content' = <<>> /\ pc' = "destroy"
    /\ handle' = NoHandle
    /\ UNCHANGED <<input, result, paths, targets, dept, today, report, d, count, now,
                   dirs, files, inflight, taskResult, requests, createCalls, storeLog,
                   lastDownload>>
    /\ UNCHANGED <<scanVars, tgtVars>>

\* The failures of create_dir that download_files is run with: none, or the
\* first directory.
AssetDirFailures == {0, 1}

\* The two scans of each page that can be fetched.
Pages == {PageBody}

Scans ==
    [page \in Pages |-> [links  |-> proper_scan_bytes(page, LinkMarkers),
                         images |-> proper_scan_bytes(page, ImageMarkers)]]

\* A download step whose failure ends the work on the target.
Download_AbortsTarget(kind, nextPc) ==
    LET scan == Scans[content][kind]
    IN  \E failAt \in AssetDirFailures, order \in Orders(scan),
           stopAt \in 0..Cardinality(scan) :
            LET r == download_files(scan, to_url(d.path), dirs, failAt, order, stopAt)
            IN  /\ dirs' = r.dirs
                /\ lastDownload' = [task |-> Len(taskResult), kind |-> kind,
                                    scan |-> scan, order |-> order, ok |-> r.ok,
                                    failed |-> ~r.ok \/ lastDownload.failed,
                                    requested |-> r.requested, written |-> r.written]
                /\ pc' = IF r.ok THEN nextPc ELSE "destroy"

\* One scan of the content and the download_files task on its matches,
\* awaited; its Result is dropped.
Download(kind, nextPc) ==
    LET scan == Scans[content][kind]
    IN  \E failAt \in AssetDirFailures, order \in Orders(scan),
           stopAt \in 0..Cardinality(scan) :
            LET r == download_files(scan, to_url(d.path), dirs, failAt, order, stopAt)
            IN  /\ dirs' = r.dirs
                /\ lastDownload' = [task |-> Len(taskResult), kind |-> kind,
                                    scan |-> scan, order |-> order, ok |-> r.ok,
                                    failed |-> ~r.ok \/ lastDownload.failed,
                                    requested |-> r.requested, written |-> r.written]
                /\ pc' = nextPc

DownloadLinks ==
    /\ pc = "links"
    /\ Download("links", "images")
    /\ UNCHANGED <<input, result, paths, targets, dept, today, report, d, count, handle,
                   content, now, files, inflight, taskResult, requests, createCalls,
                   storeLog>>
    /\ UNCHANGED <<scanVars, tgtVars>>

DownloadImages ==
    /\ pc = "images"
    /\ Download("images", "store")
    /\ UNCHANGED <<input, result, paths, targets, dept, today, report, d, count, handle,
                   content, now, files, inflight, taskResult, requests, createCalls,
                   storeLog>>
    /\ UNCHANGED <<scanVars, tgtVars>>

\* A store step that puts the entry at the front of the report.
Store_Prepends ==
    /\ pc = "store"
    /\ \E ok \in BOOLEAN :
        /\ files' = IF ok THEN write_file(files, file_location(d), content) ELSE files
        /\ report' = [report EXCEPT !.data = <<store(d, ok)>> \o @]
        /\ storeLog' = Append(storeLog, [task |-> Len(taskResult), target |-> d.path,
                                         path |-> file_location(d), ok |-> ok])
    /\ pc' = "destroy"
    /\ UNCHANGED <<input, result, paths, targets, dept, today, d, count, handle, content,
                   now, dirs, inflight, taskResult, requests, createCalls, lastDownload>>
    /\ UNCHANGED <<scanVars, tgtVars>>

\* report.add(d.store(content))
Store ==
    /\ pc = "store"
    /\ \E ok \in BOOLEAN :
        /\ files' = IF ok THEN write_file(files, file_location(d), content) ELSE files
        /\ report' = [report EXCEPT !.data = Append(@, store(d, ok))]
        /\ storeLog' = Append(storeLog, [task |-> Len(taskResult), target |-> d.path,
                                         path |-> file_location(d), ok |-> ok])
    /\ pc' = "destroy"
    /\ UNCHANGED <<input, result, paths, targets, dept, today, d, count, handle, content,
                   now, dirs, inflight, taskResult, requests, createCalls, lastDownload>>
    /\ UNCHANGED <<scanVars, tgtVars>>

\* A destroy step after which the next target gets a Today of its own.
Destroy_RebuildsToday ==
    /\ pc = "destroy"
    /\ dept' = destroy(d).base
    /\ today' = Today_build(now)
    /\ d' = NoDept
    /\ handle' = NoHandle
    /\ content' = <<>>
    /\ lastDownload' = NoDownload
    /\ pc' = "loop"
    /\ UNCHANGED <<input, result, paths, targets, report, count, now, dirs, files,
                   inflight, taskResult, requests, createCalls, storeLog>>
    /\ UNCHANGED <<scanVars, tgtVars>>

\* (dept, _, today) = d.destroy()
Destroy ==
    /\ pc = "destroy"
    /\ LET back == destroy(d)
       IN  dept' = back.base /\ today' = back.today
    /\ d' = NoDept
    /\ handle' = NoHandle
    /\ content' = <<>>
    /\ lastDownload' = NoDownload
    /\ pc' = "loop"
    /\ UNCHANGED <<input, result, paths, targets, report, count, now, dirs, files,
                   inflight, taskResult, requests, createCalls, storeLog>>
    /\ UNCHANGED <<scanVars, tgtVars>>

\* targets.pop() gave None: pursue_targets returns Ok(report); the runtime is
\* dropped with it, which ends the tasks still running.
LoopExit ==
    /\ pc = "loop"
    /\ targets = <<>>
    /\ inflight' = {}
    /\ pc' = "build"
    /\ UNCHANGED <<input, result, paths, targets, dept, today, report, d, count, handle,
                   content, now, dirs, files, taskResult, requests, createCalls, storeLog,
                   lastDownload>>
    /\ UNCHANGED <<scanVars, tgtVars>>

\* report.build(): create_path of the report's Department, then store.
ReportBuild ==
    /\ pc = "build"
    /\ \E failAt \in 0..3, ok \in BOOLEAN :
        LET made == create_path(report.info, failAt, dirs)
        IN  /\ dirs' = made.dirs
            /\ createCalls' = createCalls \o made.calls
            /\ IF made.ok
               THEN /\ files' = IF ok
                                THEN write_file(files, file_location(report.info),
                                                ReportBytes(report.data))
                                ELSE files
                    /\ result' = Ok(store(report.info, ok))
               ELSE /\ result' = Err
                    /\ UNCHANGED files
    /\ pc' = "done"
    /\ UNCHANGED <<input, paths, targets, dept, today, report, d, count, handle, content,
                   now, inflight, taskResult, requests, storeLog, lastDownload>>
    /\ UNCHANGED <<scanVars, tgtVars>>

Next ==
    \/ ManagerRun
    \/ PursueTargets
    \/ ReportNew
    \/ Dispatch
    \/ Sleep
    \/ CreatePath
    \/ FetchComplete
    \/ Await
    \/ DownloadLinks
    \/ DownloadImages
    \/ Store
    \/ Destroy
    \/ LoopExit
    \/ ReportBuild

Spec == Init /\ [][Next]_vars

(***************************************************************************)
(* SpecScan: one call of proper_scan_bytes on bounded inputs               *)
(***************************************************************************)
ScanInit ==
    /\ scanPc = "input"
    /\ scanData \in SeqsUpTo(Bytes, MaxDataLen)
    /\ scanMarkers \in MarkerChoices
    /\ scanOut = [panic |-> FALSE, spans |-> {}, set |-> {}]
    /\ TargetIdle
    /\ CrawlIdle

ProperScanBytes ==
    /\ scanPc = "input"
    /\ scanPc' = "scanned"
    /\ LET r == ScanSpans(scanData, scanMarkers)
       IN  scanOut' = [panic |-> r.panic, spans |-> r.spans,
                       set |-> IF r.panic THEN {}
                               ELSE proper_scan_bytes(scanData, scanMarkers)]
    /\ UNCHANGED <<scanData, scanMarkers>>
    /\ UNCHANGED <<tgtVars, crawlVars>>

ScanNext == ProperScanBytes

SpecScan == ScanInit /\ [][ScanNext]_vars

(***************************************************************************)
(* SpecTarget: Target::build on bounded segment lists                      *)
(***************************************************************************)
TargetInit ==
    /\ tgtPc = "input"
    /\ tgtSegs \in SeqsUpTo(SegmentPool, MaxSegs)
    /\ tgt = [base |-> <<>>, extension |-> <<>>]
    /\ ScanIdle
    /\ CrawlIdle

TargetBuild ==
    /\ tgtPc = "input"
    /\ tgtPc' = "built"
    /\ tgt' = Target_build(tgtSegs)
    /\ UNCHANGED tgtSegs
    /\ UNCHANGED <<scanVars, crawlVars>>

TargetNext == TargetBuild

SpecTarget == TargetInit /\ [][TargetNext]_vars

(***************************************************************************)
(* Helpers of the properties                                               *)
(***************************************************************************)
\* p occurs in data at offset k.
Occurs(data, p, k) ==
    k + Len(p) <= Len(data) /\ Slice(data, k, k + Len(p)) = p

Contains(data, p) == \E k \in 0..Len(data) : Occurs(data, p, k)

\* The first offset from lo on at which p occurs, Len(data) when there is none.
FirstFrom(data, p, lo) ==
    IF \E k \in lo..Len(data) : Occurs(data, p, k)
    THEN CHOOSE k \in lo..Len(data) :
            Occurs(data, p, k) /\ \A h \in lo..(k - 1) : ~Occurs(data, p, h)
    ELSE Len(data)

\* The targets the run was given.
TargetsOfRun ==
    Targets_build(IF paths.targets.role # "Bad" /\ input.target_file.exists
                  THEN Some(prep_targets(input.target_file.lines))
                  ELSE None)

\* The loop of pursue_targets has taken every target of the run.
AllTargetsTaken ==
    targets = <<>> /\ Len(taskResult) = Len(TargetsOfRun)

StoredTasks == {storeLog[k].task : k \in 1..Len(storeLog)}

Slash == <<"/">>

(***************************************************************************)
(* C1.  A target whose page fetch ends with a status that is not 2xx or    *)
(* with a transport error gets no page file and no report entry; the loop  *)
(* takes the remaining targets and the run ends in report.build.           *)
(***************************************************************************)
C1_FailedFetchSkipped ==
    \A t \in 1..Len(taskResult) :
        taskResult[t] = "none" =>
            /\ t \notin StoredTasks
            /\ Len(report.data) = Len(storeLog)
            /\ pc \in {"build", "done"} => AllTargetsTaken
            /\ pc = "done" => result # NoResult

\* A run that ended with a report file, in which one fetch gave None and a
\* later target was stored.
C1_Witness ==
    /\ pc = "done"
    /\ result.kind = "ok"
    /\ file_location(report.info) \in DOMAIN files
    /\ \E t \in 1..Len(taskResult) :
        /\ taskResult[t] = "none"
        /\ \E u \in StoredTasks : u > t

(***************************************************************************)
(* C2.  At every moment of a run at most one page fetch is in flight,      *)
(* also when create_path fails after the fetch task was spawned.           *)
(***************************************************************************)
C2_OneFetchInFlight ==
    Cardinality(inflight) <= 1

(***************************************************************************)
(* C3.  Every value proper_scan_bytes returns lies between the first       *)
(* occurrence of content_marker and the first following occurrence of      *)
(* end_content_marker.                                                     *)
(***************************************************************************)
C3_ValuesInsideRegion ==
    (scanPc = "scanned" /\ ~scanOut.panic
        /\ Contains(scanData, scanMarkers.content)) =>
        LET lo == FirstFrom(scanData, scanMarkers.content, 0)
                    + Len(scanMarkers.content)
            hi == FirstFrom(scanData, scanMarkers.end_content, lo)
        IN  \A s \in scanOut.spans : lo <= s[1] /\ s[2] <= hi

(***************************************************************************)
(* C4.  proper_scan_bytes returns the empty set for every input that does  *)
(* not contain content_marker.                                             *)
(***************************************************************************)
C4_EmptyWithoutRegionStart ==
    (scanPc = "scanned" /\ ~Contains(scanData, scanMarkers.content)) =>
        scanOut.set = {}

(***************************************************************************)
(* C5.  Every value in the set proper_scan_bytes returns contains          *)
(* pattern_marker as a contiguous substring.                               *)
(***************************************************************************)
C5_ValuesContainFilter ==
    scanPc = "scanned" =>
        \A v \in scanOut.set : Contains(v, scanMarkers.pattern)

\* A call that returned a value.
C5_Witness ==
    scanPc = "scanned" /\ ~scanOut.panic /\ scanOut.set # {}

(***************************************************************************)
(* C6.  For every target built from [base, e1, ..., en], to_url is         *)
(* base + "/" + (e1..en joined by "/") and to_store is (e1..en joined by   *)
(* "-") + ".txt", with separators only between the segments.               *)
(***************************************************************************)
RECURSIVE JoinBetween(_, _)
JoinBetween(s, sep) ==
    IF s = <<>> THEN <<>>
    ELSE IF Len(s) = 1 THEN s[1]
    ELSE s[1] \o sep \o JoinBetween(Tail(s), sep)

C6_UrlAndStoreName ==
    (tgtPc = "built" /\ tgtSegs # <<>>) =>
        /\ to_url(tgt) = tgtSegs[1] \o <<"/">> \o JoinBetween(Tail(tgtSegs), <<"/">>)
        /\ to_store(tgt) = JoinBetween(Tail(tgtSegs), <<"-">>) \o DotTxt


(***************************************************************************)
(* C7.  As the spec words it: the page of a target is stored at            *)
(* root/base/extension.../date/timestamp/storeName, every extension        *)
(* segment being a directory between the base and the date.                *)
(***************************************************************************)
RECURSIVE AsDirectories(_)
AsDirectories(segs) ==
    IF segs = <<>> THEN <<>>
    ELSE Head(segs) \o Slash \o AsDirectories(Tail(segs))

ExtensionSegments(target) ==
    SelectSeq(split(target.extension, "/", <<>>, <<>>), LAMBDA seg : seg # <<>>)

DateTimeDirs ==
    Daily_get_date(today) \o Slash \o Daily_get_time(today) \o Slash

C8_AssetFailureKeepsTarget ==
    /\ (pc = "destroy" /\ lastDownload.failed) =>
            /\ lastDownload.task \in StoredTasks
            /\ Len(report.data) = Len(storeLog)
    /\ (pc \in {"build", "done"} /\ storeLog # <<>>) => AllTargetsTaken

\* The page of a target is stored after both of its downloads failed, and
\* targets remain.
C8_Witness ==
    /\ pc = "destroy"
    /\ lastDownload.failed
    /\ ~lastDownload.ok
    /\ lastDownload.task \in StoredTasks
    /\ targets # <<>>

(***************************************************************************)
(* C9.  When the configuration file or the target list file is missing or  *)
(* a role of the configuration is unresolved, Manager::run ends with an    *)
(* error and no HTTP request has been dispatched.                          *)
(***************************************************************************)
RoleUnresolved ==
    LET ps == ConfigPath_build(prep_paths(input.config.lines, BasePath))
    IN  \/ ps.departments.role = "Bad"
        \/ ps.targets.role = "Bad"
        \/ ps.base_url.role = "Bad"
        \/ ps.reports.role = "Bad"

C9_BadInputsEndInError ==
    (pc = "done" /\ (~input.config.exists \/ ~input.target_file.exists
                        \/ RoleUnresolved)) =>
        result = Err /\ requests = <<>>

(***************************************************************************)
(* C10.  The page files of any two targets of a run lie under the same     *)
(* date and timestamp directories, though the clock moves on in the run.   *)
(***************************************************************************)
DateTimeOf(path) ==
    LET segs == split(path, "/", <<>>, <<>>)
    IN  <<segs[Len(segs) - 2], segs[Len(segs) - 1]>>

C10_SharedRunClock ==
    \A a, b \in 1..Len(storeLog) :
        DateTimeOf(storeLog[a].path) = DateTimeOf(storeLog[b].path)

\* Three targets stored, the clock read later for the report than for the
\* pages, and the third target stored after the sleep.
C10_Witness ==
    /\ Len(storeLog) = 3
    /\ report.info.today # today
    /\ now > report.info.today.time

(***************************************************************************)
(* C11.  As the spec words it: Department::create_path, over all targets   *)
(* and the report of a run, issues at most one create_dir call per path.   *)
(***************************************************************************)
C11_OneCreatePerPath ==
    \A i, j \in 1..Len(createCalls) :
        createCalls[i] = createCalls[j] => i = j

(***************************************************************************)
(* C11, amended.  Every create_dir call Department::create_path issues is  *)
(* for a path that is not a directory when the call is made, and one       *)
(* create_path issues no two calls for the same path; a path whose         *)
(* creation failed may be tried again for a later target.                  *)
(***************************************************************************)
C11_CreateOnlyMissing ==
    [][\A k \in (Len(createCalls) + 1)..Len(createCalls') :
          /\ StripSlash(createCalls'[k]) \notin dirs
          /\ \A h \in (Len(createCalls) + 1)..Len(createCalls') :
                createCalls'[h] = createCalls'[k] => h = k]_vars

\* A path is tried a second time after its creation failed, and another
\* create_path found its location already made.
C11_Witness ==
    /\ \E i, j \in 1..Len(createCalls) :
          i < j /\ createCalls[i] = createCalls[j]
    /\ \E k \in 1..Len(storeLog) :
          Cardinality({c \in 1..Len(createCalls) :
                          createCalls[c] = get_path(paths.departments)
                                             \o storeLog[k].target.base \o Slash}) = 1
    /\ Len(storeLog) >= 2

(***************************************************************************)
(* C12.  The crawl loop ends with the target queue empty, and each target  *)
(* of the queue has its page fetch dispatched exactly once: the k-th       *)
(* request of the run is the one of the k-th target from the end of the    *)
(* queue, and no target is put back.                                       *)
(***************************************************************************)
DispatchedOnce ==
    LET all == TargetsOfRun
    IN  /\ Len(targets) <= Len(all)
        /\ targets = SubSeq(all, 1, Len(targets))
        /\ Len(requests) = Len(all) - Len(targets)
        /\ Len(taskResult) = Len(requests)
        /\ \A k \in 1..Len(requests) :
              requests[k] = make_path(paths.base_url, to_url(all[Len(all) - k + 1]))

\* How far a state is from the end of the run: every step lowers it.  A
\* target weighs more than the steps taken for it.
PcRank ==
    CASE pc = "done"       -> 0
      [] pc = "build"      -> 1
      [] pc = "loop"       -> 2
      [] pc = "destroy"    -> 3
      [] pc = "store"      -> 4
      [] pc = "images"     -> 5
      [] pc = "links"      -> 6
      [] pc = "await"      -> 7
      [] pc = "create"     -> 8
      [] pc = "sleep"      -> 9
      [] pc = "report_new" -> 10
      [] pc = "client"     -> 11
      [] OTHER             -> 12

Rank ==
    PcRank + Cardinality(inflight)
        + 12 * (IF pc = "run" THEN MaxTargets + 1 ELSE Len(targets))

\* The one step that waits, block_on(handle), waits for a task that is still
\* running, hence for one that ends.
AwaitedFetchEnds ==
    (pc = "await" /\ handle.output = "pending") => handle.task \in inflight

C12_LoopDrainsQueue ==
    /\ [](pc # "run" => DispatchedOnce)
    /\ []((pc = "build" \/ (pc = "done" /\ report.info # NoDept)) => targets = <<>>)
    /\ [][Rank' < Rank]_vars
    /\ [](AwaitedFetchEnds)

\* A run of three targets has ended; the fetch of the first gave None and
\* the directories of the second could not be made.
C12_Witness ==
    /\ pc = "done"
    /\ Len(requests) = 3
    /\ taskResult[1] = "none"
    /\ taskResult[2] = "dropped"
    /\ targets = <<>>

(***************************************************************************)
(* C13.  The entries of the report, whatever the claim: the k-th entry is  *)
(* the path of the page file written by the k-th d.store call, or          *)
(* "No data for <url>" when that write failed; no target has two entries,  *)
(* and a target whose awaited fetch gave None or whose handle was dropped  *)
(* has none.                                                               *)
(***************************************************************************)
EntriesOf(t) == {k \in 1..Len(storeLog) : storeLog[k].task = t}

\* The target of the newest task is still being processed.
InProgress == pc \in {"sleep", "create", "await", "links", "images", "store"}

ReportEntries ==
    /\ Len(report.data) = Len(storeLog)
    /\ \A k \in 1..Len(storeLog) :
          LET e == storeLog[k]
          IN  /\ e.ok => e.path \in DOMAIN files /\ report.data[k] = e.path
              /\ ~e.ok => report.data[k] = NoDataFor \o to_url(e.target)
    /\ \A t \in 1..Len(taskResult) :
          /\ Cardinality(EntriesOf(t)) <= 1
          /\ taskResult[t] # "some" => EntriesOf(t) = {}

(***************************************************************************)
(* C13, as the spec words it.  Every target whose page fetch succeeded     *)
(* with a byte body has exactly one entry once the loop is done with it.   *)
(***************************************************************************)
C13_EntryPerFetchedPage ==
    /\ ReportEntries
    /\ \A t \in 1..Len(taskResult) :
          (taskResult[t] = "some" /\ ~(InProgress /\ t = Len(taskResult)))
              => Cardinality(EntriesOf(t)) = 1
    /\ (pc = "destroy" /\ handle.output = "some") => EntriesOf(handle.task) # {}

(***************************************************************************)
(* C13, amended.  Every target whose create_path returned Ok and whose     *)
(* awaited page fetch gave a byte body has exactly one entry once the loop *)
(* is done with it; a target whose create_path failed has none, also when  *)
(* its fetch gave a byte body.                                             *)
(***************************************************************************)
C13_EntryPerStoredPage ==
    /\ ReportEntries
    /\ \A t \in 1..Len(taskResult) :
          (taskResult[t] = "some" /\ ~(InProgress /\ t = Len(taskResult)))
              => Cardinality(EntriesOf(t)) = 1
    /\ (pc = "destroy" /\ handle # NoHandle) => EntriesOf(handle.task) = {}

\* A report with a path and a fallback string, and a third target whose
\* fetch gave a body while its directories could not be made.
C13_Witness ==
    /\ pc = "done"
    /\ Len(report.data) = 2
    /\ \E k \in 1..Len(storeLog) : storeLog[k].ok
    /\ \E k \in 1..Len(storeLog) : ~storeLog[k].ok
    /\ \E t \in 1..Len(taskResult) : taskResult[t] = "dropped"

(***************************************************************************)
(* C14.  Every occurrence, between the end of the first content_marker     *)
(* and the first following end_content_marker, of tag_marker followed by   *)
(* attribute_marker, two opening bytes, a value and deliminator_marker     *)
(* puts the value into the set proper_scan_bytes returns whenever the      *)
(* value contains pattern_marker, also when the value ends with it.        *)
(***************************************************************************)
\* The value of the tag at offset t starts at ValueStart and ends before
\* the first deliminator_marker from there on.
ValueStart(m, t) == t + Len(m.tag) + Len(m.attribute) + 2

WellFormedTags(data, m) ==
    LET lo == FirstFrom(data, m.content, 0) + Len(m.content)
        hi == FirstFrom(data, m.end_content, lo)
    IN  {t \in lo..Len(data) :
            /\ Occurs(data, m.tag, t)
            /\ Occurs(data, m.attribute, t + Len(m.tag))
            /\ ValueStart(m, t) <= Len(data)
            /\ LET e == FirstFrom(data, m.deliminator, ValueStart(m, t))
               IN  e < Len(data) /\ e + Len(m.deliminator) <= hi}

ValueOf(data, m, t) ==
    Slice(data, ValueStart(m, t), FirstFrom(data, m.deliminator, ValueStart(m, t)))

C14_FilteredValuesReturned ==
    (scanPc = "scanned" /\ ~scanOut.panic
        /\ Contains(scanData, scanMarkers.content)) =>
        \A t \in WellFormedTags(scanData, scanMarkers) :
            Contains(ValueOf(scanData, scanMarkers, t), scanMarkers.pattern) =>
                ValueOf(scanData, scanMarkers, t) \in scanOut.set

(***************************************************************************)
(* C15.  A value that no deliminator_marker follows before the end of the  *)
(* input is not in the set proper_scan_bytes returns, neither whole nor    *)
(* cut short: every returned span has a deliminator_marker at or after     *)
(* its start.                                                              *)
(***************************************************************************)
C15_UnterminatedValueDropped ==
    (scanPc = "scanned" /\ ~scanOut.panic
        /\ Contains(scanData, scanMarkers.content)) =>
        \A s \in scanOut.spans :
            \E k \in s[1]..Len(scanData) :
                Occurs(scanData, scanMarkers.deliminator, k)

(***************************************************************************)
(* C16.  The clock is read once per run: the date and timestamp            *)
(* directories the run report is written under are those of every page     *)
(* stored in the same run, though the clock moves on in the run.           *)
(***************************************************************************)
C16_ReportSharesRunClock ==
    (pc = "done" /\ report.info # NoDept
        /\ file_location(report.info) \in DOMAIN files) =>
        \A k \in 1..Len(storeLog) :
            storeLog[k].ok =>
                DateTimeOf(storeLog[k].path) = DateTimeOf(file_location(report.info))

(***************************************************************************)
(* C17.  Within one match set of a target, a failing request, body or      *)
(* write of one asset skips that asset only: every match of the set is     *)
(* requested, and at most one of them is not written.                      *)
(***************************************************************************)
RequestedUrls == {lastDownload.requested[k] : k \in 1..Len(lastDownload.requested)}

C17_AssetFailureSkipsOneAsset ==
    (lastDownload # NoDownload /\ lastDownload.requested # <<>>) =>
        /\ \A m \in lastDownload.scan : m # <<>> => AssetUrl(m) \in RequestedUrls
        /\ Cardinality(lastDownload.written) >= Cardinality(lastDownload.scan) - 1

(***************************************************************************)
(* C18.  Department::create_path makes the root directory, then the date   *)
(* directory, then the timestamp directory, in that order and each only    *)
(* when it is missing; a failed create_dir is the last call and the error  *)
(* goes back to the caller; after Ok all three directories exist; a page   *)
(* or report file is written only into a directory create_path made sure   *)
(* of.                                                                     *)
(***************************************************************************)
CreateOrder(dep) ==
    <<location(dep), storage_location_today(dep), storage_location_now(dep)>>

NewCalls == SubSeq(createCalls', Len(createCalls) + 1, Len(createCalls'))

\* calls is a subsequence of todo.
InOrder(calls, todo) ==
    \E f \in [1..Len(calls) -> 1..Len(todo)] :
        /\ \A k \in 1..Len(calls) : calls[k] = todo[f[k]]
        /\ \A h, k \in 1..Len(calls) : h < k => f[h] < f[k]

\* The directory a file path lies in.
DirOf(path) ==
    LET last == CHOOSE k \in 1..Len(path) :
                    path[k] = "/" /\ \A h \in (k + 1)..Len(path) : path[h] # "/"
    IN  StripSlash(SubSeq(path, 1, last))

CreatePathStep(dep, returnedOk) ==
    /\ InOrder(NewCalls, CreateOrder(dep))
    /\ \A k \in 1..Len(NewCalls) : StripSlash(NewCalls[k]) \notin dirs
    /\ \A k \in 1..(Len(NewCalls) - 1) : StripSlash(NewCalls[k]) \in dirs'
    /\ dirs \subseteq dirs'
    /\ dirs' \subseteq dirs \cup {StripSlash(NewCalls[k]) : k \in 1..Len(NewCalls)}
    /\ returnedOk =>
            \A k \in 1..3 : StripSlash(CreateOrder(dep)[k]) \in dirs'
    /\ ~returnedOk =>
            /\ NewCalls # <<>>
            /\ StripSlash(NewCalls[Len(NewCalls)]) \notin dirs'

C18_CreatePathInOrder ==
    [][/\ (pc = "create" /\ pc' # "create") =>
            /\ pc' \in {"await", "destroy"}
            /\ CreatePathStep(d, pc' = "await")
            /\ pc' = "destroy" => (storeLog' = storeLog /\ files' = files)
       /\ (pc = "build" /\ pc' # "build") =>
            /\ CreatePathStep(report.info, result'.kind = "ok")
            /\ result'.kind # "ok" => (result' = Err /\ files' = files)
       /\ createCalls' # createCalls => pc \in {"create", "build"}
       /\ \A p \in DOMAIN files' :
            (p \notin DOMAIN files \/ files'[p] # files[p]) =>
                /\ DirOf(p) \in dirs'
                /\ pc \in {"store", "build"}
                /\ pc = "store" => DirOf(p) = StripSlash(storage_location_now(d))
                /\ pc = "build" =>
                      DirOf(p) = StripSlash(storage_location_now(report.info))
      ]_vars

\* A run in which create_path failed for one target, made the directories of
\* another whose page was written, and made those of the written report.
C18_Witness ==
    /\ pc = "done"
    /\ result.kind = "ok"
    /\ file_location(report.info) \in DOMAIN files
    /\ \E t \in 1..Len(taskResult) : taskResult[t] = "dropped"
    /\ \E k \in 1..Len(storeLog) : storeLog[k].ok /\ storeLog[k].path \in DOMAIN files
    /\ \E i, j \in 1..Len(createCalls) : i < j /\ createCalls[i] = createCalls[j]

(***************************************************************************)
(* C19.  The loop of pursue_targets sleeps after every third dispatched    *)
(* page fetch: a fetch is dispatched only when fewer than BatchSize        *)
(* fetches were dispatched since the last sleep, and no fetch is           *)
(* dispatched while a sleep is due or going on.                            *)
(***************************************************************************)
\* The sleeps made so far: after Report::new the clock moves on by sleeping
\* only.
Sleeps == (now - report.info.today.time) \div SleepSeconds

SinceLastSleep == Len(requests) - BatchSize * Sleeps

C19_DelayEveryThirdFetch ==
    /\ [](report.info # NoDept =>
            IF pc = "sleep"
            THEN SinceLastSleep = BatchSize
            ELSE Sleeps = Len(requests) \div BatchSize)
    /\ [][requests' # requests =>
            /\ pc = "loop"
            /\ SinceLastSleep < BatchSize
            /\ Len(requests') = Len(requests) + 1
            /\ (Len(requests') % BatchSize = 0) => pc' = "sleep"]_vars
    /\ [][(pc = "sleep" /\ pc' # "sleep") =>
            now' = now + SleepSeconds /\ requests' = requests]_vars

\* The fourth fetch was dispatched, after the sleep that followed the third.
C19_Witness ==
    /\ Len(requests) = BatchSize + 1
    /\ Sleeps = 1
    /\ pc = "create"

(***************************************************************************)
(* C20.  The entries of the report stand in the order in which their       *)
(* targets were processed, and the targets are processed from the end of   *)
(* the target file: of two targets with an entry each, the one later in    *)
(* the file has its entry earlier in the report.                           *)
(***************************************************************************)
\* The place in the target file of the target whose entry is the k-th.
FilePlace(k) == Len(TargetsOfRun) - storeLog[k].task + 1

C20_ReportInLifoOrder ==
    report.info # NoDept =>
        /\ Len(report.data) = Len(storeLog)
        /\ \A k \in 1..Len(storeLog) :
            /\ FilePlace(k) \in 1..Len(TargetsOfRun)
            /\ storeLog[k].target = TargetsOfRun[FilePlace(k)]
            /\ report.data[k] =
                  IF storeLog[k].ok THEN storeLog[k].path
                  ELSE NoDataFor \o to_url(storeLog[k].target)
        /\ \A a, b \in 1..Len(storeLog) : a < b => FilePlace(a) > FilePlace(b)

\* Four targets, each with an entry: three pages stored and one not written.
C20_Witness ==
    /\ pc = "done"
    /\ Len(report.data) = 4
    /\ ~storeLog[2].ok
    /\ \A k \in {1, 3, 4} : storeLog[k].ok

(***************************************************************************)
(* C21.  Within one run two distinct targets of the target list are never  *)
(* stored to the same page file path, so that the page of one target is    *)
(* not overwritten by the page of another.                                 *)
(***************************************************************************)
C21_DistinctTargetsDistinctFiles ==
    \A a, b \in 1..Len(storeLog) :
        (storeLog[a].ok /\ storeLog[b].ok
            /\ storeLog[a].target # storeLog[b].target) =>
            storeLog[a].path # storeLog[b].path

=============================================================================
